---- MODULE Spec2Model ----
(***************************************************************************)
(* Model of the techies-validator backend: the lead-freshness calculation  *)
(* (calculateLeadFreshness), the /analyze handler with its verdict         *)
(* enrichment (analyzeHandler, both variants kept in the repository) and   *)
(* the bounded-concurrency batch loop.                                     *)
(*                                                                         *)
(* JavaScript values are tagged records [t |-> type, v |-> payload], so    *)
(* that undefined, null, booleans, numbers and strings stay distinct.      *)
(* Instants are [d |-> days since 1970-01-01, ms |-> millisecond of day]:  *)
(* the same millisecond arithmetic as the code, kept in two digits because *)
(* epoch milliseconds exceed 32-bit integers.                              *)
(***************************************************************************)
EXTENDS Integers, Sequences, FiniteSets, TLC

VARIABLES
    clock,      \* the system clock, read by `new Date()`
    ticks,      \* how many times the clock has advanced
    log,        \* the last two calls of calculateLeadFreshness: argument, clock read, result
    variant,    \* which server file is deployed: "server.js" or "part_001"
    apiKey,     \* process.env.OPENAI_API_KEY
    pc,         \* position of the analyze invocation
    body,       \* req.body of the invocation
    upstream,   \* what the model API answered (settled fetch)
    outbound,   \* outbound model calls issued by the invocation
    sent,       \* responses sent to the caller by the invocation
    leads,      \* batch: the input leads
    cap,        \* batch: the concurrency cap
    queue,      \* batch: indices not yet started
    inflight,   \* batch: indices being analysed
    cooling,    \* batch: worker slots waiting the inter-task delay
    results,    \* batch: results collected so far, by array index
    finished,   \* batch: indices in the order their analyses completed
    batchPc,    \* batch: "idle", "running" or "returned"
    returned,   \* batch: the sequence handed back to the caller
    apifyToken, \* process.env.APIFY_API_TOKEN
    fbCookies,  \* process.env.FACEBOOK_COOKIES
    proofPc,    \* position of the fetch-results invocation
    proofBody,  \* req.body of the fetch-results invocation
    actorCalls, \* inputs the scraping actor was called with by the invocation
    actorRun,   \* what the actor run and its dataset came to
    proofSent   \* responses sent to the caller by the fetch-results invocation

vars == <<clock, ticks, log, variant, apiKey, pc, body, upstream, outbound, sent,
          leads, cap, queue, inflight, cooling, results, finished, batchPc, returned,
          apifyToken, fbCookies, proofPc, proofBody, actorCalls, actorRun, proofSent>>
handlerVars == <<variant, apiKey, pc, body, upstream, outbound, sent>>
batchVars == <<leads, cap, queue, inflight, cooling, results, finished, batchPc, returned>>
proofVars == <<apifyToken, fbCookies, proofPc, proofBody, actorCalls, actorRun, proofSent>>

(***************************************************************************)
(* JavaScript values                                                       *)
(***************************************************************************)
Undefined == [t |-> "undefined"]
Null == [t |-> "null"]
Bool(b) == [t |-> "boolean", v |-> b]
Num(n) == [t |-> "number", v |-> n]
Str(s) == [t |-> "string", v |-> s]
Arr(s) == [t |-> "array", v |-> s]
Obj(f) == [t |-> "object", v |-> f]
\* An object whose valueOf and toString are not callable: JSON can carry it
\* ({"toString":null,"valueOf":null}) and converting it to a primitive throws.
Opaque == [t |-> "opaque"]

\* x.k for a property read: undefined when the key is absent.
Get(x, k) == IF x.t = "object" /\ k \in DOMAIN x.v THEN x.v[k] ELSE Undefined

\* JavaScript truthiness (the `!x` and `x || y` tests of the handlers).
Truthy(x) ==
    CASE x.t \in {"undefined", "null"} -> FALSE
      [] x.t = "boolean" -> x.v
      [] x.t = "number" -> x.v # 0
      [] x.t = "string" -> x.v # ""
      [] OTHER -> TRUE

\* String(x) as a template literal `${x}` renders it.
Render(x) ==
    CASE x.t = "undefined" -> "undefined"
      [] x.t = "null" -> "null"
      [] x.t = "boolean" -> (IF x.v THEN "true" ELSE "false")
      [] x.t = "number" -> ToString(x.v)
      [] x.t = "string" -> x.v
      [] OTHER -> "[object Object]"

(***************************************************************************)
(* Dates                                                                   *)
(***************************************************************************)
MsPerHour == 1000 * 60 * 60
MsPerDay == 1000 * 60 * 60 * 24

Digits == {"0", "1", "2", "3", "4", "5", "6", "7", "8", "9"}
DigitVal(c) ==
    CASE c = "0" -> 0 [] c = "1" -> 1 [] c = "2" -> 2 [] c = "3" -> 3 [] c = "4" -> 4
      [] c = "5" -> 5 [] c = "6" -> 6 [] c = "7" -> 7 [] c = "8" -> 8 [] c = "9" -> 9

IsDigits(s) == \A i \in 1..Len(s) : SubSeq(s, i, i) \in Digits

RECURSIVE NumVal(_)
NumVal(s) ==
    IF Len(s) = 0 THEN 0
    ELSE 10 * NumVal(SubSeq(s, 1, Len(s) - 1)) + DigitVal(SubSeq(s, Len(s), Len(s)))

\* Days from 1970-01-01 to the civil date y-m-d (proleptic Gregorian).
DaysFromCivil(y, m, d) ==
    LET yy == IF m <= 2 THEN y - 1 ELSE y
        era == yy \div 400
        yoe == yy - era * 400
        mp == IF m > 2 THEN m - 3 ELSE m + 9
        doy == (153 * mp + 2) \div 5 + d - 1
        doe == yoe * 365 + yoe \div 4 - yoe \div 100 + doy
    IN era * 146097 + doe - 719468

\* The time value of an invalid Date.
NaN == [nan |-> TRUE]

\* Date.parse on the ISO-8601 UTC forms YYYY-MM-DDTHH:mm:ssZ and
\* YYYY-MM-DDTHH:mm:ss.sssZ; anything else the inputs hold is not a date.
\* (The engine's fallback formats, and days 29-31 of shorter months, are
\* outside the inputs.)
DateParse(s) ==
    LET n == Len(s)
        shape == /\ n \in {20, 24}
                 /\ SubSeq(s, 5, 5) = "-" /\ SubSeq(s, 8, 8) = "-"
                 /\ SubSeq(s, 11, 11) = "T"
                 /\ SubSeq(s, 14, 14) = ":" /\ SubSeq(s, 17, 17) = ":"
                 /\ SubSeq(s, n, n) = "Z"
                 /\ IsDigits(SubSeq(s, 1, 4)) /\ IsDigits(SubSeq(s, 6, 7))
                 /\ IsDigits(SubSeq(s, 9, 10)) /\ IsDigits(SubSeq(s, 12, 13))
                 /\ IsDigits(SubSeq(s, 15, 16)) /\ IsDigits(SubSeq(s, 18, 19))
                 /\ (n = 24 => SubSeq(s, 20, 20) = "." /\ IsDigits(SubSeq(s, 21, 23)))
        y == NumVal(SubSeq(s, 1, 4))
        mo == NumVal(SubSeq(s, 6, 7))
        d == NumVal(SubSeq(s, 9, 10))
        h == NumVal(SubSeq(s, 12, 13))
        mi == NumVal(SubSeq(s, 15, 16))
        se == NumVal(SubSeq(s, 18, 19))
        frac == IF n = 24 THEN NumVal(SubSeq(s, 21, 23)) ELSE 0
    IN IF ~shape THEN NaN
       ELSE IF ~(mo \in 1..12 /\ d \in 1..31 /\ h \in 0..23 /\ mi \in 0..59 /\ se \in 0..59)
       THEN NaN
       ELSE [nan |-> FALSE,
             d |-> DaysFromCivil(y, mo, d),
             ms |-> ((h * 60 + mi) * 60 + se) * 1000 + frac]

\* new Date(x): the time value, or a thrown TypeError when x has no primitive.
NewDate(x) ==
    CASE x.t = "opaque" -> [threw |-> TRUE]
      [] x.t = "string" -> [threw |-> FALSE, time |-> DateParse(x.v)]
      [] x.t = "number" /\ x.v >= 0 ->
            [threw |-> FALSE,
             time |-> [nan |-> FALSE, d |-> x.v \div MsPerDay, ms |-> x.v % MsPerDay]]
      [] OTHER -> [threw |-> FALSE, time |-> NaN]

\* a > b on two valid dates.
After(a, b) == a.d > b.d \/ (a.d = b.d /\ a.ms > b.ms)

\* now - postedDate in milliseconds, as whole days and a remainder in -MsPerDay+1..MsPerDay-1.
\* The remainder has the sign of the difference (or is 0).
DiffMs(now, posted) ==
    LET dd == now.d - posted.d
        dm == now.ms - posted.ms
    IN IF dd > 0 /\ dm < 0 THEN [days |-> dd - 1, ms |-> dm + MsPerDay]
       ELSE IF dd < 0 /\ dm > 0 THEN [days |-> dd + 1, ms |-> dm - MsPerDay]
       ELSE [days |-> dd, ms |-> dm]

\* Math.floor(diffMs / (1000 * 60 * 60 * 24)).
FloorDays(diff) == IF diff.ms < 0 THEN diff.days - 1 ELSE diff.days

\* Mutant: the threshold itself is excluded (diffHours < h).
HoursBelow(diff, h) ==
    IF diff.days > 1 THEN FALSE
    ELSE IF diff.days < 0 THEN TRUE
    ELSE diff.days * MsPerDay + diff.ms < h * MsPerHour

\* diffMs / (1000 * 60 * 60) <= h, for h of at most 24 hours.
HoursAtMost(diff, h) ==
    IF diff.days > 1 THEN FALSE
    ELSE IF diff.days < 0 THEN TRUE
    ELSE diff.days * MsPerDay + diff.ms <= h * MsPerHour

\* A number with two decimals, held in hundredths.
Dec(h) == [t |-> "number", hundredths |-> h]

\* parseFloat(diffHours.toFixed(2)) for diffMs >= 0: hours rounded to hundredths.
\* (An exact tie n.nn5 rounds as the binary double falls; no input here is a tie.)
HoursFixed2(diff) == diff.days * 2400 + (diff.ms + 18000) \div 36000

\* diffHours.toFixed(1), used for ages of at most 24 hours.
HoursFixed1(diff) ==
    LET tenths == (diff.days * MsPerDay + diff.ms + 180000) \div 360000
    IN ToString(tenths \div 10) \o "." \o ToString(tenths % 10)

\* The status text of lines 87-101.
StatusOf(diff) ==
    LET diffDays == FloorDays(diff)
    IN IF HoursAtMost(diff, 1) THEN "Fresh - Posted within the last hour"
       ELSE IF HoursAtMost(diff, 24)
       THEN "Fresh - Posted " \o HoursFixed1(diff) \o " hours ago"
       ELSE IF diffDays = 1 THEN "Stale - Posted 1 day ago"
       ELSE IF diffDays <= 7 THEN "Stale - Posted " \o ToString(diffDays) \o " days ago"
       ELSE IF diffDays <= 30
       THEN "Stale - Posted " \o ToString(diffDays) \o " days ago ("
                \o ToString(diffDays \div 7) \o " weeks)"
       ELSE "Stale - Posted " \o ToString(diffDays) \o " days ago ("
                \o ToString(diffDays \div 30) \o " months)"

FreshnessResult(isFresh, daysOld, postAgeHours, timestamp, status, scrapedData) ==
    Obj([isFresh |-> isFresh, daysOld |-> daysOld, postAgeHours |-> postAgeHours,
         timestamp |-> timestamp, status |-> status, scrapedData |-> scrapedData])

\* Mutant: the freshness threshold is 12 hours, the day count is unchanged.
AgedResultHalfDay(posted_at_iso, postedDate, now) ==
    LET diff == DiffMs(now, postedDate)
    IN FreshnessResult(Bool(HoursAtMost(diff, 12)), Num(FloorDays(diff)),
                       Dec(HoursFixed2(diff)), posted_at_iso, Str(StatusOf(diff)),
                       Bool(TRUE))

\* Lines 79-112: the age of a parsed date that is not in the future.
AgedResult(posted_at_iso, postedDate, now) ==
    LET diff == DiffMs(now, postedDate)
    IN FreshnessResult(Bool(HoursAtMost(diff, 24)), Num(FloorDays(diff)),
                       Dec(HoursFixed2(diff)), posted_at_iso, Str(StatusOf(diff)),
                       Bool(TRUE))

FutureResult(posted_at_iso) ==
    FreshnessResult(Bool(TRUE), Num(0), Dec(0), posted_at_iso,
                    Str("Fresh - Posted today or future scheduled"), Bool(TRUE))
\* Mutant: no future check, the age of a future date is computed like any other.
FutureUnchecked(posted_at_iso, postedDate, now) ==
    AgedResult(posted_at_iso, postedDate, now)

\* Lines 66-77: a date after now is reported fresh, with age 0.
FutureCheck(posted_at_iso, postedDate, now) ==
    IF After(postedDate, now) THEN FutureResult(posted_at_iso)
    ELSE AgedResult(posted_at_iso, postedDate, now)

InvalidResult(posted_at_iso) ==
    FreshnessResult(Null, Null, Null, posted_at_iso,
                    Str("Unknown - Invalid date format"), Bool(FALSE))

\* Lines 53-64: an invalid Date is reported, not computed with.
ValidityCheck(posted_at_iso, postedDate, now) ==
    IF postedDate.nan THEN InvalidResult(posted_at_iso)
    ELSE FutureCheck(posted_at_iso, postedDate, now)

\* The try block of lines 48-112: its value, or that it threw.
FreshnessTry(posted_at_iso, now) ==
    LET parsed == NewDate(posted_at_iso)
    IN IF parsed.threw THEN [threw |-> TRUE]
       ELSE [threw |-> FALSE, value |-> ValidityCheck(posted_at_iso, parsed.time, now)]
\* Mutant: no catch block, the exception leaves the function.
FreshnessUncaught(posted_at_iso, attempt) == attempt

\* Lines 113-123: the catch block.
FreshnessCatch(posted_at_iso, attempt) ==
    IF attempt.threw
    THEN [threw |-> FALSE,
          value |-> FreshnessResult(Null, Null, Null, posted_at_iso,
                                    Str("Unknown - Calculation error"), Bool(FALSE))]
    ELSE attempt
\* Mutant: `now` is kept between calls and refreshed only after use.
NowOfPreviousCall == IF log = <<>> THEN clock ELSE log[Len(log)].at

\* `const now = new Date()` (line 51): the clock at the moment of the call.
Now == clock

\* calculateLeadFreshness(posted_at_iso): [threw, value], threw when an exception
\* leaves the function.
calculateLeadFreshness(posted_at_iso) ==
    IF ~Truthy(posted_at_iso)
    THEN [threw |-> FALSE,
          value |-> FreshnessResult(Null, Null, Null, Null,
                                    Str("Unknown - No post date available"), Bool(FALSE))]
    ELSE FreshnessCatch(posted_at_iso, FreshnessTry(posted_at_iso, Now))

(***************************************************************************)
(* The clock, and calls of calculateLeadFreshness on their own             *)
(***************************************************************************)
MaxTicks == 2

\* The instant the model starts at.
Epoch == DateParse("2024-01-10T00:00:00Z")

\* Clock advances, in milliseconds: a millisecond, half an hour, a day.
TickSteps == {1, 30 * 60 * 1000, MsPerDay}

Advance(t, ms) ==
    [nan |-> FALSE, d |-> t.d + (t.ms + ms) \div MsPerDay, ms |-> (t.ms + ms) % MsPerDay]

\* posted_at_iso values a lead can carry.
Timestamps ==
    { Undefined, Null, Str(""), Opaque,
      Str("not-a-date"), Str("2024-13-01T00:00:00Z"),
      Str("2024-02-01T00:00:00Z"), Str("2024-01-10T00:00:00.001Z"),
      Str("2024-01-09T23:30:00Z"), Str("2024-01-09T12:00:00Z"),
      Str("2024-01-09T00:00:00Z"), Str("2024-01-01T00:00:00Z"),
      Str("2023-11-01T00:00:00Z") }

\* The clock moves forward by one of the steps.
Tick ==
    /\ ticks < MaxTicks
    /\ \E step \in TickSteps : clock' = Advance(clock, step)
    /\ ticks' = ticks + 1
    /\ UNCHANGED <<log, handlerVars, batchVars>>
    /\ UNCHANGED proofVars

\* The last two entries of a sequence.
LastTwo(s) == IF Len(s) <= 2 THEN s ELSE SubSeq(s, Len(s) - 1, Len(s))

\* One call of calculateLeadFreshness, observed: its argument, the clock at the
\* moment of the call, and what came out.
CallFreshness ==
    /\ \E posted_at_iso \in Timestamps :
          log' = LastTwo(Append(log, [arg |-> posted_at_iso,
                                      at |-> clock,
                                      out |-> calculateLeadFreshness(posted_at_iso)]))
    /\ UNCHANGED <<clock, ticks, handlerVars, batchVars>>
    /\ UNCHANGED proofVars

InitClock == clock = Epoch /\ ticks = 0 /\ log = <<>>

InitHandlerIdle ==
    /\ variant = "server.js"
    /\ apiKey = Undefined
    /\ pc = "idle"
    /\ body = Undefined
    /\ upstream = Undefined
    /\ outbound = 0
    /\ sent = <<>>

InitProofIdle ==
    /\ apifyToken = Undefined
    /\ fbCookies = Undefined
    /\ proofPc = "idle"
    /\ proofBody = Undefined
    /\ actorCalls = <<>>
    /\ actorRun = Undefined
    /\ proofSent = <<>>

InitBatchIdle ==
    /\ leads = <<>>
    /\ cap = 0
    /\ batchPc = "idle"
    /\ returned = <<>>
    /\ queue = <<>>
    /\ inflight = {}
    /\ cooling = 0
    /\ results = <<>>
    /\ finished = <<>>

InitFreshness == InitClock /\ InitHandlerIdle /\ InitBatchIdle /\ InitProofIdle

NextFreshness == Tick \/ CallFreshness

SpecFreshness == InitFreshness /\ [][NextFreshness]_vars

(***************************************************************************)
(* JSON text                                                               *)
(***************************************************************************)
\* What JSON.stringify keeps of a value: object keys whose value is undefined
\* are dropped, undefined array entries become null.
RECURSIVE Strip(_)
Strip(x) ==
    CASE x.t = "object" ->
            Obj([k \in {j \in DOMAIN x.v : x.v[j].t # "undefined"} |-> Strip(x.v[k])])
      [] x.t = "array" ->
            Arr([i \in 1..Len(x.v) |->
                    IF x.v[i].t = "undefined" THEN Null ELSE Strip(x.v[i])])
      [] OTHER -> x

\* JSON.stringify(x): a string that holds the serialisation of x.
JSONstringify(x) == [t |-> "json", v |-> Strip(x)]

\* JSON.parse(s): the value, or a thrown SyntaxError when s is not JSON text.
JSONparse(s) ==
    IF s.t = "json" THEN [threw |-> FALSE, value |-> s.v] ELSE [threw |-> TRUE]

\* x?.[i] on an array.
Idx(x, i) == IF x.t = "array" /\ i < Len(x.v) THEN x.v[i + 1] ELSE Undefined

\* [...x]: the entries of an array, the characters of a string; other values
\* are not iterable and the spread throws.
Spread(x) ==
    CASE x.t = "array" -> [threw |-> FALSE, items |-> x.v]
      [] x.t = "string" ->
            [threw |-> FALSE, items |-> [i \in 1..Len(x.v) |-> Str(SubSeq(x.v, i, i))]]
      [] OTHER -> [threw |-> TRUE]

(***************************************************************************)
(* analyzeHandler                                                          *)
(***************************************************************************)
Respond(status, payload) == [status |-> status, body |-> payload]
\* Mutant: the catch block answers with a degraded verdict instead of a failure.
CatchResponseDegraded ==
    [status |-> 200,
     body |-> Obj([content |-> Arr(<<Obj([text |->
                JSONstringify(Obj([verdict |-> Str("UNCLEAR")]))])>>)])]

\* The catch block of analyzeHandler (lines 337-340).
CatchResponse == Respond(500, Obj([error |-> Str("Failed to get AI analysis.")]))
\* Mutant: the credential is checked before the lead.
PrecheckKeyFirst(reqBody, key) ==
    LET lead == Get(IF Truthy(reqBody) THEN reqBody ELSE Obj(<<>>), "lead")
    IN IF ~Truthy(key)
       THEN [proceed |-> FALSE,
             response |-> [status |-> 500,
                           body |-> Obj([error |-> Str("Missing OPENAI_API_KEY on server.")])]]
       ELSE IF ~Truthy(lead)
       THEN [proceed |-> FALSE,
             response |-> [status |-> 400,
                           body |-> Obj([error |-> Str("Lead data is required.")])]]
       ELSE [proceed |-> TRUE]

\* Lines 271-275: the lead and credential checks, in the order of the code.
\* "proceed" when both pass.
Precheck(reqBody, key) ==
    LET lead == Get(IF Truthy(reqBody) THEN reqBody ELSE Obj(<<>>), "lead")
    IN IF ~Truthy(lead)
       THEN [proceed |-> FALSE,
             response |-> Respond(400, Obj([error |-> Str("Lead data is required.")]))]
       ELSE IF ~Truthy(key)
       THEN [proceed |-> FALSE,
             response |-> Respond(500, Obj([error |-> Str("Missing OPENAI_API_KEY on server.")]))]
       ELSE [proceed |-> TRUE]
\* Mutant: the model's verdict is kept even when the lead is stale.
EnrichedVerdictKept(aiResponse, freshnessData) == Get(aiResponse, "verdict")

\* Mutant: a lead of unknown freshness is rejected like a stale one.
EnrichedVerdictUnlessFresh(aiResponse, freshnessData) ==
    IF Get(freshnessData, "isFresh") # Bool(TRUE) THEN Str("BAD")
    ELSE Get(aiResponse, "verdict")

\* Line 324: the verdict, overridden when the lead is stale.
EnrichedVerdict(aiResponse, freshnessData) ==
    IF Get(freshnessData, "isFresh") = Bool(FALSE) THEN Str("BAD")
    ELSE Get(aiResponse, "verdict")

\* Lines 326-328.
EnrichedReasoning(aiResponse, freshnessData) ==
    IF Get(freshnessData, "isFresh") = Bool(FALSE)
    THEN Str("[AUTO REJECTED: Post is " \o Render(Get(freshnessData, "daysOld"))
             \o " days old - exceeds 24-hour freshness requirement] "
             \o Render(Get(aiResponse, "reasoning")))
    ELSE Get(aiResponse, "reasoning")
\* Mutant: the freshness flag is put first instead of last.
EnrichedRedFlagsPrepended(aiResponse, freshnessData) ==
    IF Get(freshnessData, "isFresh") = Bool(FALSE)
    THEN LET given == Get(aiResponse, "red_flags")
             flags == Spread(IF Truthy(given) THEN given ELSE Arr(<<>>))
         IN IF flags.threw THEN [threw |-> TRUE]
            ELSE [threw |-> FALSE,
                  value |-> Arr(<<Str("Lead is " \o Render(Get(freshnessData, "daysOld"))
                                      \o " days old - exceeds freshness threshold")>>
                                \o flags.items)]
    ELSE [threw |-> FALSE, value |-> Get(aiResponse, "red_flags")]

\* Lines 330-332: [threw, value].
EnrichedRedFlags(aiResponse, freshnessData) ==
    IF Get(freshnessData, "isFresh") = Bool(FALSE)
    THEN LET given == Get(aiResponse, "red_flags")
             flags == Spread(IF Truthy(given) THEN given ELSE Arr(<<>>))
         IN IF flags.threw THEN [threw |-> TRUE]
            ELSE [threw |-> FALSE,
                  value |-> Arr(Append(flags.items,
                                Str("Lead is " \o Render(Get(freshnessData, "daysOld"))
                                    \o " days old - exceeds freshness threshold")))]
    ELSE [threw |-> FALSE, value |-> Get(aiResponse, "red_flags")]

\* Lines 320-333: the merge. Reading a property of null throws; the keys written
\* after the spread replace those of aiResponse.
Enrich(aiResponse, freshnessData) ==
    LET flags == EnrichedRedFlags(aiResponse, freshnessData)
        spread == IF aiResponse.t = "object" THEN aiResponse.v ELSE <<>>
    IN IF aiResponse.t \in {"null", "undefined"} \/ flags.threw THEN [threw |-> TRUE]
       ELSE [threw |-> FALSE,
             value |-> Obj([freshness |-> freshnessData,
                            verdict |-> EnrichedVerdict(aiResponse, freshnessData),
                            reasoning |-> EnrichedReasoning(aiResponse, freshnessData),
                            red_flags |-> flags.value] @@ spread)]

\* Line 310: data?.choices?.[0]?.message?.content ?? '{}'.
ContentOf(data) ==
    LET content == Get(Get(Idx(Get(data, "choices"), 0), "message"), "content")
    IN IF content.t \in {"undefined", "null"} THEN JSONstringify(Obj(<<>>)) ELSE content

\* server.js lines 312-336: parse the model's text, compute freshness, merge, answer.
EnrichAndRespond(text, lead) ==
    LET parsed == JSONparse(text)
        posted_at_iso == Get(Get(Get(lead, "fetchResults"), "rawData"), "posted_at_iso")
        freshness == calculateLeadFreshness(posted_at_iso)
        enriched == Enrich(parsed.value, freshness.value)
    IN IF parsed.threw \/ freshness.threw THEN CatchResponse
       ELSE IF enriched.threw THEN CatchResponse
       ELSE Respond(200, Obj([content |->
                Arr(<<Obj([text |-> JSONstringify(enriched.value)])>>)]))

\* part_001 lines 125-126: the model's text is passed on as it is.
RelayRespond(text) == Respond(200, Obj([content |-> Arr(<<Obj([text |-> text])>>)]))

\* Lines 303-336 (part_001 116-126): what the handler answers once the body
\* of the model's response has been read.
AfterText(file, r, lead) ==
    IF ~r.ok
    THEN Respond(r.status, Obj([error |-> Str("OpenAI API error"), details |-> r.raw]))
    ELSE LET data == JSONparse(r.raw)
         IN IF data.threw THEN CatchResponse
            ELSE IF file = "server.js" THEN EnrichAndRespond(ContentOf(data.value), lead)
            ELSE RelayRespond(ContentOf(data.value))

(***************************************************************************)
(* Inputs of the analyze path                                              *)
(***************************************************************************)
Variants == {"server.js", "part_001"}

ApiKeys == {Undefined, Str("sk-test")}

\* A lead carrying the scraped post date under fetchResults.rawData.
LeadPosted(posted_at_iso) ==
    Obj([fetchResults |-> Obj([rawData |-> Obj([posted_at_iso |-> posted_at_iso])])])

\* Post dates the leads of the analyze path carry: unparsable, throwing, in the
\* future, exactly 24 hours old at the start, nine days old.
LeadTimestamps ==
    { Str("not-a-date"), Opaque, Str("2024-02-01T00:00:00Z"),
      Str("2024-01-09T00:00:00Z"), Str("2024-01-01T00:00:00Z") }

Leads ==
    {Obj([County |-> Str("Kent")])} \cup {LeadPosted(ts) : ts \in LeadTimestamps}

\* req.body: no body, a body without lead, a null lead, a lead.
Bodies ==
    {Undefined, Obj(<<>>), Obj([lead |-> Null])} \cup {Obj([lead |-> l]) : l \in Leads}

\* What the model may answer as its verdict object.
Verdicts ==
    { Obj([verdict |-> Str("GOOD"), reasoning |-> Str("strong signal"),
           red_flags |-> Arr(<<>>), confidence |-> Num(85)]),
      Obj([verdict |-> Str("BAD"), reasoning |-> Str("education sector"),
           red_flags |-> Arr(<<Str("school"), Str("no phone")>>)]),
      Obj([verdict |-> Str("UNCLEAR"), reasoning |-> Str("Insufficient information"),
           red_flags |-> Null]),
      Obj([confidence |-> Num(40)]),
      Obj([verdict |-> Str("GOOD"), red_flags |-> Arr(<<Str("old page")>>),
           freshness |-> Obj([isFresh |-> Bool(TRUE)])]),
      Obj([verdict |-> Str("GOOD"), reasoning |-> Str("new cafe"),
           red_flags |-> Bool(TRUE)]) }

\* The body of a chat completion whose first choice carries `content`.
ChatCompletion(content) ==
    JSONstringify(Obj([choices |-> Arr(<<Obj([message |-> Obj([content |-> content])])>>)]))

\* The responses fetch may resolve with: an error status, a body that is not
\* JSON, a completion without choices, a content that is not JSON, a content
\* that is JSON null, and a verdict object.
UpstreamResponses ==
    { [status |-> 429, ok |-> FALSE, raw |-> Str("rate limited")],
      [status |-> 200, ok |-> TRUE, raw |-> Str("<html>Bad gateway</html>")],
      [status |-> 200, ok |-> TRUE, raw |-> JSONstringify(Obj(<<>>))],
      [status |-> 200, ok |-> TRUE, raw |-> ChatCompletion(Str("This lead looks good."))],
      [status |-> 200, ok |-> TRUE, raw |-> ChatCompletion(JSONstringify(Null))] }
    \cup {[status |-> 200, ok |-> TRUE, raw |-> ChatCompletion(JSONstringify(v))] :
             v \in Verdicts}

(***************************************************************************)
(* The analyze invocation, step by step                                    *)
(***************************************************************************)
\* analyzeHandler up to `await fetch` (lines 269-301): a request arrives, is
\* checked, and either answered at once or one call to the model API is issued.
analyzeHandler ==
    /\ pc \in {"idle", "done"}
    /\ \E reqBody \in Bodies :
          LET check == Precheck(reqBody, apiKey)
          IN /\ body' = reqBody
             /\ upstream' = Undefined
             /\ IF check.proceed
                THEN /\ outbound' = 1
                     /\ sent' = <<>>
                     /\ pc' = "fetch"
                ELSE /\ outbound' = 0
                     /\ sent' = <<check.response>>
                     /\ pc' = "done"
    /\ UNCHANGED <<clock, ticks, log, variant, apiKey, batchVars>>
    /\ UNCHANGED proofVars
\* Mutant: a failed call is issued again instead of being answered.
OnFailureRetry(calls) == [outbound |-> calls + 1, sent |-> <<>>, pc |-> "fetch"]

\* What the handler does when the awaited call fails: the catch block answers.
\* No further call is issued.
OnFailure(calls) == [outbound |-> calls, sent |-> <<CatchResponse>>, pc |-> "done"]

\* `await fetch(...)` settles (line 285): it rejects, and the catch block
\* answers, or it resolves with a response whose body is still to be read.
FetchSettles ==
    /\ pc = "fetch"
    /\ \/ /\ upstream' = [fetch |-> "rejected"]
          /\ outbound' = OnFailure(outbound).outbound
          /\ sent' = sent \o OnFailure(outbound).sent
          /\ pc' = OnFailure(outbound).pc
       \/ /\ \E r \in UpstreamResponses :
                upstream' = [fetch |-> "resolved", text |-> "pending", r |-> r]
          /\ pc' = "text"
          /\ UNCHANGED <<outbound, sent>>
    /\ UNCHANGED <<clock, ticks, log, variant, apiKey, body, batchVars>>
    /\ UNCHANGED proofVars

\* `await r.text()` settles (line 303): it rejects, and the catch block
\* answers, or the rest of the handler runs to its response.
TextSettles ==
    /\ pc = "text"
    /\ \/ /\ upstream' = [upstream EXCEPT !.text = "rejected"]
          /\ outbound' = OnFailure(outbound).outbound
          /\ sent' = sent \o OnFailure(outbound).sent
          /\ pc' = OnFailure(outbound).pc
       \/ /\ upstream' = [upstream EXCEPT !.text = "resolved"]
          /\ sent' = Append(sent, AfterText(variant, upstream.r, Get(body, "lead")))
          /\ pc' = "done"
          /\ UNCHANGED outbound
    /\ UNCHANGED <<clock, ticks, log, variant, apiKey, body, batchVars>>
    /\ UNCHANGED proofVars

Init ==
    /\ InitClock
    /\ variant \in Variants
    /\ apiKey \in ApiKeys
    /\ pc = "idle"
    /\ body = Undefined
    /\ upstream = Undefined
    /\ outbound = 0
    /\ sent = <<>>
    /\ InitBatchIdle
    /\ InitProofIdle

Next == Tick \/ analyzeHandler \/ FetchSettles \/ TextSettles

Spec == Init /\ [][Next]_vars

(***************************************************************************)
(* Properties of the analyze path                                          *)
(***************************************************************************)
\* The invocation has read the body of a successful model response.
ReadOk ==
    /\ pc = "done"
    /\ "text" \in DOMAIN upstream
    /\ upstream.text = "resolved"
    /\ upstream.r.ok

\* The only response of a finished invocation.
Answer == sent[1]

\* The text field of a 200 answer, content[0].text.
AnswerText == Answer.body.v.content.v[1].v.text

\* server.js answered with an enriched verdict.
EnrichedAnswer == ReadOk /\ variant = "server.js" /\ Len(sent) = 1 /\ Answer.status = 200

\* The enriched verdict as the caller parses it from the answer.
Enriched == JSONparse(AnswerText).value

\* The verdict object the model sent (V).
ModelVerdict == JSONparse(ContentOf(JSONparse(upstream.r.raw).value)).value

\* The freshness result attached to the answer (F).
Attached == Get(Enriched, "freshness")

Stale == Get(Attached, "isFresh") = Bool(FALSE)

\* C1: whenever server.js answers with an enriched verdict whose freshness result
\* has isFresh false, the verdict field of the answer is "BAD", whatever verdict
\* the model gave (GOOD, BAD, UNCLEAR or none).
C1_StaleForcesBad ==
    (EnrichedAnswer /\ Stale) => Get(Enriched, "verdict") = Str("BAD")

C1_Witness ==
    /\ EnrichedAnswer /\ Stale
    /\ Get(ModelVerdict, "verdict") = Str("GOOD")
    /\ Get(Enriched, "verdict") = Str("BAD")

\* C2: whenever the attached freshness result has isFresh false, the red_flags of
\* the answer are the model's red_flags (none when the model gave no list), in
\* their order, followed by exactly one entry,
\* "Lead is {daysOld} days old - exceeds freshness threshold".
C2_RedFlagAppended ==
    (EnrichedAnswer /\ Stale) =>
        LET given == Get(ModelVerdict, "red_flags")
            original == IF given.t = "array" THEN given.v ELSE <<>>
            daysOld == Get(Attached, "daysOld").v
        IN Get(Enriched, "red_flags") =
              Arr(original \o <<Str("Lead is " \o ToString(daysOld)
                                    \o " days old - exceeds freshness threshold")>>)

C2_Witness ==
    /\ EnrichedAnswer /\ Stale
    /\ Get(ModelVerdict, "red_flags") = Arr(<<Str("school"), Str("no phone")>>)
    /\ Len(Get(Enriched, "red_flags").v) = 3
    /\ Get(Attached, "daysOld") = Num(9)

\* C3: whenever the attached freshness result has isFresh true or null, the answer
\* is the model's verdict object with only the freshness field set: it has the
\* model's keys and freshness, and every other key has the model's value.
C3_PassThrough ==
    (EnrichedAnswer /\ Get(Attached, "isFresh") \in {Bool(TRUE), Null}) =>
        /\ DOMAIN Enriched.v = DOMAIN ModelVerdict.v \cup {"freshness"}
        /\ \A k \in DOMAIN ModelVerdict.v \ {"freshness"} : Enriched.v[k] = ModelVerdict.v[k]

C3_Witness ==
    /\ EnrichedAnswer
    /\ Get(Attached, "isFresh") = Null
    /\ ModelVerdict = Obj([confidence |-> Num(40)])
    /\ Enriched = Obj([confidence |-> Num(40), freshness |-> Attached])

\* The body of the model's response, or the content in it, is not JSON.
BodyUnparsable == JSONparse(upstream.r.raw).threw
ContentUnparsable ==
    ~BodyUnparsable /\ JSONparse(ContentOf(JSONparse(upstream.r.raw).value)).threw

FailureAnswer ==
    [status |-> 500, body |-> Obj([error |-> Str("Failed to get AI analysis.")])]

\* C4 as claimed: when the model call succeeds but its body or the content in it
\* is not valid JSON, the caller gets a degraded UNCLEAR verdict, not a failure.
C4_DegradedUnclear ==
    (ReadOk /\ (BodyUnparsable \/ ContentUnparsable)) =>
        /\ Answer.status = 200
        /\ AnswerText.t = "json"
        /\ Get(JSONparse(AnswerText).value, "verdict") = Str("UNCLEAR")

\* C4 as amended: when the model call succeeds but its body is not valid JSON, the
\* caller gets the failure answer 500 "Failed to get AI analysis."; so it does from
\* server.js when the content is not valid JSON, while part_001 passes such a
\* content on as it is in a 200 answer. No UNCLEAR verdict is substituted.
C4_ParseFailureAnswered ==
    /\ (ReadOk /\ BodyUnparsable) => sent = <<FailureAnswer>>
    /\ (ReadOk /\ ContentUnparsable /\ variant = "server.js") => sent = <<FailureAnswer>>
    /\ (ReadOk /\ ContentUnparsable /\ variant = "part_001") =>
            /\ Len(sent) = 1
            /\ Answer.status = 200
            /\ AnswerText = ContentOf(JSONparse(upstream.r.raw).value)

C4_Witness ==
    /\ ReadOk /\ ContentUnparsable /\ variant = "server.js"
    /\ sent = <<FailureAnswer>>

\* The lead of the current request, as the handler destructures it.
RequestLead == Get(body, "lead")

\* C5: a request without a lead is answered 400 and a request with a lead but no
\* credential is answered 500, both without any outbound call; the missing lead
\* is reported even when the credential is missing too.
C5_InputAndConfigErrors ==
    pc # "idle" =>
        /\ ~Truthy(RequestLead) =>
              /\ pc = "done" /\ outbound = 0
              /\ sent = <<[status |-> 400,
                           body |-> Obj([error |-> Str("Lead data is required.")])]>>
        /\ (Truthy(RequestLead) /\ ~Truthy(apiKey)) =>
              /\ pc = "done" /\ outbound = 0
              /\ sent = <<[status |-> 500,
                           body |-> Obj([error |-> Str("Missing OPENAI_API_KEY on server.")])]>>

C5_Witness ==
    /\ pc = "done"
    /\ body = Obj([lead |-> Null])
    /\ ~Truthy(apiKey)
    /\ Len(sent) = 1 /\ Answer.status = 400 /\ outbound = 0

\* C6: an invocation issues at most one outbound call and sends exactly one
\* response: none while it waits for the model, one once it has finished, and
\* a failed or unparsable model response is answered, not called for again.
C6_OneCallOneResponse ==
    /\ outbound <= 1
    /\ pc \in {"fetch", "text"} => (outbound = 1 /\ sent = <<>>)
    /\ pc = "done" => Len(sent) = 1

C6_Witness ==
    /\ pc = "done"
    /\ "fetch" \in DOMAIN upstream
    /\ \/ upstream.fetch = "rejected"
       \/ upstream.text = "rejected"
       \/ ~upstream.r.ok
       \/ BodyUnparsable
    /\ outbound = 1
    /\ Len(sent) = 1

(***************************************************************************)
(* Properties of calculateLeadFreshness                                    *)
(***************************************************************************)
\* The timestamps of the inputs that are present and do not parse to a date.
Malformed == {Str("not-a-date"), Str("2024-13-01T00:00:00Z")}

Calls == {log[i] : i \in 1..Len(log)}

\* The argument is a date, and it is after the clock read at the call.
InFuture(call) ==
    /\ call.arg.t = "string"
    /\ ~DateParse(call.arg.v).nan
    /\ After(DateParse(call.arg.v), call.at)

\* C7: no call of calculateLeadFreshness raises, whatever the argument; for a
\* present timestamp that does not parse to a date the result is isFresh, daysOld
\* and postAgeHours unknown, scrapedData false, the raw input as timestamp and
\* the status "Unknown - Invalid date format".
C7_NeverRaises ==
    \A call \in Calls :
        /\ ~call.out.threw
        /\ call.arg \in Malformed =>
              call.out.value =
                  Obj([isFresh |-> Null, daysOld |-> Null, postAgeHours |-> Null,
                       timestamp |-> call.arg,
                       status |-> Str("Unknown - Invalid date format"),
                       scrapedData |-> Bool(FALSE)])

C7_Witness ==
    /\ Len(log) = 2
    /\ log[1].arg = Opaque /\ ~log[1].out.threw
    /\ log[2].arg = Str("2024-13-01T00:00:00Z")
    /\ Get(log[2].out.value, "status") = Str("Unknown - Invalid date format")

\* C8: for a timestamp that parses to a date strictly after the clock read at the
\* call, the result is isFresh true, daysOld 0, postAgeHours 0 and scrapedData
\* true; it is not the stale result on which the enrichment rejects a lead.
C8_FutureIsFresh ==
    \A call \in Calls :
        InFuture(call) =>
            /\ ~call.out.threw
            /\ Get(call.out.value, "isFresh") = Bool(TRUE)
            /\ Get(call.out.value, "daysOld") = Num(0)
            /\ Get(call.out.value, "postAgeHours") = Dec(0)
            /\ Get(call.out.value, "scrapedData") = Bool(TRUE)

C8_Witness ==
    /\ Len(log) = 2
    /\ log[1].arg = Str("2024-01-10T00:00:00.001Z") /\ log[1].at = Epoch
    /\ InFuture(log[1])
    /\ Get(log[1].out.value, "daysOld") = Num(0)
    /\ log[2].arg = log[1].arg /\ ~InFuture(log[2])

NotAfterNow(call) ==
    /\ call.arg.t = "string"
    /\ ~DateParse(call.arg.v).nan
    /\ ~After(DateParse(call.arg.v), call.at)

\* The date of the argument, k whole days (k * 24 hours) later.
PostedPlusDays(call, k) == [DateParse(call.arg.v) EXCEPT !.d = @ + k]

\* C12: for a timestamp that parses to a date not after the clock read at the
\* call, isFresh is true exactly when the age is at most 24 hours (now is not
\* after the date plus 24 hours), and daysOld is the whole number k of 24-hour
\* periods in the age (date + k days <= now < date + (k + 1) days); a post
\* exactly 24 hours old is fresh, one a millisecond older is stale.
C12_FreshWithinDay ==
    \A call \in Calls :
        NotAfterNow(call) =>
            LET daysOld == Get(call.out.value, "daysOld")
            IN /\ ~call.out.threw
               /\ Get(call.out.value, "isFresh") =
                      Bool(~After(call.at, PostedPlusDays(call, 1)))
               /\ daysOld.t = "number" /\ "v" \in DOMAIN daysOld
               /\ daysOld.v >= 0
               /\ ~After(PostedPlusDays(call, daysOld.v), call.at)
               /\ After(PostedPlusDays(call, daysOld.v + 1), call.at)

\* The same post, first exactly 24 hours old and fresh, then 24 hours and a
\* millisecond old and stale.
C12_Witness ==
    /\ Len(log) = 2
    /\ log[1].arg = Str("2024-01-09T00:00:00Z") /\ log[1].at = Epoch
    /\ Get(log[1].out.value, "isFresh") = Bool(TRUE)
    /\ Get(log[1].out.value, "daysOld") = Num(1)
    /\ log[2].arg = log[1].arg
    /\ log[2].at = [Epoch EXCEPT !.ms = @ + 1]
    /\ Get(log[2].out.value, "isFresh") = Bool(FALSE)
    /\ Get(log[2].out.value, "daysOld") = Num(1)

\* The result says stale.
StaleCall(call) == ~call.out.threw /\ Get(call.out.value, "isFresh") = Bool(FALSE)

\* A verdict of the model, to which the enrichment is applied.
SomeVerdict ==
    Obj([verdict |-> Str("GOOD"), reasoning |-> Str("active buyer"),
         red_flags |-> Arr(<<Str("no phone")>>)])

\* C13: every result with isFresh false has scrapedData true, a whole daysOld of
\* at least 1 and a status that begins with "Stale"; so the reasoning and the red
\* flag that the enrichment makes of it name that positive day count, never
\* "0 days old" and never an unknown age.
C13_StaleHasAge ==
    \A call \in Calls :
        StaleCall(call) =>
            LET result == call.out.value
                daysOld == Get(result, "daysOld")
                status == Get(result, "status")
                flags == EnrichedRedFlags(SomeVerdict, result)
            IN /\ Get(result, "scrapedData") = Bool(TRUE)
               /\ daysOld.t = "number" /\ "v" \in DOMAIN daysOld
               /\ daysOld.v >= 1
               /\ status.t = "string" /\ Len(status.v) >= 5
               /\ SubSeq(status.v, 1, 5) = "Stale"
               /\ EnrichedReasoning(SomeVerdict, result) =
                      Str("[AUTO REJECTED: Post is " \o ToString(daysOld.v)
                          \o " days old - exceeds 24-hour freshness requirement] "
                          \o "active buyer")
               /\ ~flags.threw
               /\ flags.value =
                      Arr(<<Str("no phone"),
                            Str("Lead is " \o ToString(daysOld.v)
                                \o " days old - exceeds freshness threshold")>>)

\* A post 24 hours and a millisecond old, the youngest that is stale, and one of
\* ten weeks.
C13_Witness ==
    /\ Len(log) = 2
    /\ log[1].arg = Str("2024-01-09T00:00:00Z")
    /\ log[1].at = [Epoch EXCEPT !.ms = @ + 1]
    /\ StaleCall(log[1])
    /\ Get(log[1].out.value, "status") = Str("Stale - Posted 1 day ago")
    /\ log[2].arg = Str("2023-11-01T00:00:00Z")
    /\ StaleCall(log[2])
    /\ Get(log[2].out.value, "daysOld") = Num(70)

(***************************************************************************)
(* analyzeBatch: the bounded-concurrency batch loop                        *)
(***************************************************************************)
MaxLeads == 3
MaxCap == 2

\* The outcome of one analysis; a failed one degrades to UNCLEAR.
BatchVerdicts == {"GOOD", "BAD", "UNCLEAR"}

\* The batch's leads L0, L1, ...
BatchLeads(n) == [i \in 1..n |-> "L" \o ToString(i - 1)]

\* Mutant: a result is pushed at the end of the array, in completion order.
CollectPushed(collected, index, item) ==
    (Cardinality(DOMAIN collected) :> item) @@ collected

\* results[index] = item: results are collected by position.
Collect(collected, index, item) == (index :> item) @@ collected

\* A free worker slot takes the next queued lead and starts its analysis.
BatchStart ==
    /\ batchPc = "running"
    /\ queue # <<>>
    /\ Cardinality(inflight) + cooling < cap
    /\ inflight' = inflight \cup {Head(queue)}
    /\ queue' = Tail(queue)
    /\ UNCHANGED <<leads, cap, cooling, results, finished, batchPc, returned>>
    /\ UNCHANGED <<clock, ticks, log, handlerVars>>
    /\ UNCHANGED proofVars

\* An analysis in flight completes, in any order: its result is collected and
\* its slot starts waiting the inter-task delay.
BatchComplete ==
    /\ batchPc = "running"
    /\ \E index \in inflight, verdict \in BatchVerdicts :
          /\ results' = Collect(results, index,
                                [index |-> index, lead |-> leads[index + 1],
                                 verdict |-> verdict])
          /\ inflight' = inflight \ {index}
          /\ finished' = Append(finished, index)
    /\ cooling' = cooling + 1
    /\ UNCHANGED <<leads, cap, queue, batchPc, returned>>
    /\ UNCHANGED <<clock, ticks, log, handlerVars>>
    /\ UNCHANGED proofVars

\* The inter-task delay of a slot ends.
BatchDelayEnds ==
    /\ cooling > 0
    /\ cooling' = cooling - 1
    /\ UNCHANGED <<leads, cap, queue, inflight, results, finished, batchPc, returned>>
    /\ UNCHANGED <<clock, ticks, log, handlerVars>>
    /\ UNCHANGED proofVars

\* Every lead has been analysed: the collected array is handed back.
BatchReturn ==
    /\ batchPc = "running"
    /\ queue = <<>>
    /\ inflight = {}
    /\ returned' = [k \in 1..Cardinality(DOMAIN results) |-> results[k - 1]]
    /\ batchPc' = "returned"
    /\ UNCHANGED <<leads, cap, queue, inflight, cooling, results, finished>>
    /\ UNCHANGED <<clock, ticks, log, handlerVars>>
    /\ UNCHANGED proofVars

InitBatch ==
    /\ InitClock
    /\ InitHandlerIdle
    /\ InitProofIdle
    /\ \E n \in 0..MaxLeads :
          /\ leads = BatchLeads(n)
          /\ queue = [i \in 1..n |-> i - 1]
    /\ cap \in 1..MaxCap
    /\ inflight = {}
    /\ cooling = 0
    /\ results = <<>>
    /\ finished = <<>>
    /\ batchPc = "running"
    /\ returned = <<>>

NextBatch == BatchStart \/ BatchComplete \/ BatchDelayEnds \/ BatchReturn

SpecBatch == InitBatch /\ [][NextBatch]_vars

\* C10: analyzeBatch never has more than concurrencyCap analyses in flight, and
\* what it returns has one result per input lead, in input order: the k-th result
\* has index k-1 and is the result of the k-th lead, in whatever order the
\* analyses completed.
C10_BatchOrder ==
    /\ Cardinality(inflight) <= cap
    /\ batchPc = "returned" =>
          /\ Len(returned) = Len(leads)
          /\ \A k \in 1..Len(returned) :
                returned[k].index = k - 1 /\ returned[k].lead = leads[k]

C10_Witness ==
    /\ batchPc = "returned"
    /\ Len(leads) = 3 /\ cap = 2
    /\ finished = <<1, 0, 2>>
    /\ [k \in 1..3 |-> returned[k].index] = <<0, 1, 2>>

(***************************************************************************)
(* fetchResultsHandler: the proof-fetch path                               *)
(***************************************************************************)
MaxItems == 2

ProofError(status, message) == [status |-> status, body |-> Obj([error |-> Str(message)])]

\* Mutant: the parsed cookies are not checked for being an array.
ProofPrecheckAnyJson(reqBody, token, cookies) ==
    LET lead == Get(IF Truthy(reqBody) THEN reqBody ELSE Obj(<<>>), "lead")
        leadProofUrl == Get(lead, "Lead Proof URL")
        parsed == JSONparse(cookies)
    IN IF ~Truthy(lead) THEN
           [proceed |-> FALSE, response |-> ProofError(400, "lead object is required.")]
       ELSE IF ~Truthy(leadProofUrl) THEN
           [proceed |-> FALSE,
            response |-> ProofError(400, "Lead Proof URL is missing from lead object.")]
       ELSE IF ~Truthy(token) THEN
           [proceed |-> FALSE, response |-> ProofError(500, "Missing APIFY_API_TOKEN on server.")]
       ELSE IF ~Truthy(cookies) THEN
           [proceed |-> FALSE, response |-> ProofError(500, "Missing FACEBOOK_COOKIES on server.")]
       ELSE IF parsed.threw THEN
           [proceed |-> FALSE,
            response |-> [status |-> 500,
                          body |-> Obj([error |-> Str("Invalid FACEBOOK_COOKIES format. Must be a valid JSON array."),
                                        details |-> Str("SyntaxError")])]]
       ELSE [proceed |-> TRUE,
             input |-> [cookies |-> JSONstringify(parsed.value),
                        startUrls |-> Arr(<<Obj([url |-> leadProofUrl])>>)]]

\* Lines 348-397: the checks before the actor is called, in the order of the
\* code, and the input the actor is called with when all pass.
ProofPrecheck(reqBody, token, cookies) ==
    LET lead == Get(IF Truthy(reqBody) THEN reqBody ELSE Obj(<<>>), "lead")
        leadProofUrl == Get(lead, "Lead Proof URL")
        parsed == JSONparse(cookies)
    IN IF ~Truthy(lead) THEN
           [proceed |-> FALSE, response |-> ProofError(400, "lead object is required.")]
       ELSE IF ~Truthy(leadProofUrl) THEN
           [proceed |-> FALSE,
            response |-> ProofError(400, "Lead Proof URL is missing from lead object.")]
       ELSE IF ~Truthy(token) THEN
           [proceed |-> FALSE, response |-> ProofError(500, "Missing APIFY_API_TOKEN on server.")]
       ELSE IF ~Truthy(cookies) THEN
           [proceed |-> FALSE, response |-> ProofError(500, "Missing FACEBOOK_COOKIES on server.")]
       ELSE IF parsed.threw \/ parsed.value.t # "array" THEN
           [proceed |-> FALSE,
            response |-> [status |-> 500,
                          body |-> Obj([error |-> Str("Invalid FACEBOOK_COOKIES format. Must be a valid JSON array."),
                                        details |-> IF parsed.threw THEN Str("SyntaxError")
                                                    ELSE Str("FACEBOOK_COOKIES must be a JSON array")])]]
       ELSE [proceed |-> TRUE,
             input |-> [cookies |-> JSONstringify(parsed.value),
                        startUrls |-> Arr(<<Obj([url |-> leadProofUrl])>>)]]

\* The catch block of fetchResultsHandler (lines 428-435).
ProofCatchResponse(message) ==
    [status |-> 500,
     body |-> Obj([error |-> Str("Failed to fetch results from Apify."),
                   details |-> Str(message)])]

\* a || b.
Or(a, b) == IF Truthy(a) THEN a ELSE b

\* Lines 404-426: what the handler answers once the dataset has been listed.
AfterItems(items, leadProofUrl) ==
    IF ~Truthy(items) \/ Len(items.v) = 0
    THEN [status |-> 404,
          body |-> Obj([error |-> Str("No data found for the provided URL."),
                        leadProofUrl |-> leadProofUrl])]
    ELSE LET result == items.v[1]
         IN IF result.t \in {"null", "undefined"}
            THEN ProofCatchResponse("Cannot read properties of null")
            ELSE [status |-> 200,
                  body |-> Obj([success |-> Bool(TRUE),
                                postDate |-> Or(Get(result, "postDate"),
                                                Or(Get(result, "posted_at_raw"),
                                                   Or(Get(result, "posted_at_iso"), Null))),
                                postUrl |-> Or(Get(result, "postUrl"), leadProofUrl),
                                postText |-> Or(Get(result, "postText"), Null),
                                status |-> Or(Get(result, "status"), Str("success")),
                                previousPosts |-> Or(Get(result, "previousPosts"), Arr(<<>>)),
                                rawData |-> result])]

ApifyTokens == {Undefined, Str("apify_api_test")}

\* FACEBOOK_COOKIES: unset, text that is not JSON, JSON that is no array, an
\* empty JSON array, a JSON array of cookie records.
CookieSettings ==
    { Undefined, Str("c_user=1; xs=2"),
      JSONstringify(Obj([name |-> Str("c_user"), value |-> Str("1")])),
      JSONstringify(Arr(<<>>)),
      JSONstringify(Arr(<<Obj([name |-> Str("c_user"), value |-> Str("1")])>>)) }

ProofBodies ==
    { Undefined, Obj(<<>>),
      Obj([lead |-> Obj([County |-> Str("Kent")])]),
      Obj([lead |-> Obj("Lead Proof URL" :> Str(""))]),
      Obj([lead |-> Obj("Lead Proof URL" :> Str("https://facebook.com/cafe/posts/1"))]),
      Obj([lead |-> Obj("Lead Proof URL" :> Str("https://facebook.com/salon/posts/7"))]) }

\* Records the actor may leave in its dataset.
ScrapedRecords ==
    { Obj([postDate |-> Str("2 hrs ago"), postText |-> Str("Grand opening!"),
           posted_at_iso |-> Str("2024-01-09T22:00:00Z"),
           previousPosts |-> Arr(<<Str("Coming soon")>>)]),
      Obj([posted_at_iso |-> Str("2024-01-01T00:00:00Z")]),
      Obj(<<>>),
      Null }

RECURSIVE SeqsUpTo(_, _)
SeqsUpTo(S, n) ==
    IF n = 0 THEN {<<>>}
    ELSE SeqsUpTo(S, n - 1) \cup {Append(q, x) : q \in {r \in SeqsUpTo(S, n - 1) : Len(r) = n - 1}, x \in S}

\* What listItems may resolve with as `items`.
ItemLists == {Undefined} \cup {Arr(q) : q \in SeqsUpTo(ScrapedRecords, MaxItems)}

\* fetchResultsHandler up to `await actorClient.call` (lines 346-397): the
\* request is checked and either answered at once or the actor is called.
fetchResultsHandler ==
    /\ proofPc \in {"idle", "done"}
    /\ \E reqBody \in ProofBodies :
          LET check == ProofPrecheck(reqBody, apifyToken, fbCookies)
          IN /\ proofBody' = reqBody
             /\ actorRun' = Undefined
             /\ IF check.proceed
                THEN /\ actorCalls' = <<check.input>>
                     /\ proofSent' = <<>>
                     /\ proofPc' = "actor"
                ELSE /\ actorCalls' = <<>>
                     /\ proofSent' = <<check.response>>
                     /\ proofPc' = "done"
    /\ UNCHANGED <<clock, ticks, log, handlerVars, batchVars, apifyToken, fbCookies>>

\* `await actorClient.call(...)` settles (line 394): it rejects, and the catch
\* block answers, or the run has completed and its dataset is to be listed.
ActorSettles ==
    /\ proofPc = "actor"
    /\ \/ /\ actorRun' = [call |-> "rejected"]
          /\ proofSent' = Append(proofSent, ProofCatchResponse("Actor run failed"))
          /\ proofPc' = "done"
       \/ /\ actorRun' = [call |-> "resolved", list |-> "pending"]
          /\ proofPc' = "items"
          /\ UNCHANGED proofSent
    /\ UNCHANGED <<clock, ticks, log, handlerVars, batchVars,
                   apifyToken, fbCookies, proofBody, actorCalls>>

\* `await client.dataset(...).listItems()` settles (line 402): it rejects, and
\* the catch block answers, or the rest of the handler runs to its response.
ItemsSettle ==
    /\ proofPc = "items"
    /\ \/ /\ actorRun' = [call |-> "resolved", list |-> "rejected"]
          /\ proofSent' = Append(proofSent, ProofCatchResponse("Dataset not found"))
       \/ \E items \in ItemLists :
             /\ actorRun' = [call |-> "resolved", list |-> "resolved", items |-> items]
             /\ proofSent' = Append(proofSent,
                    AfterItems(items, Get(Get(proofBody, "lead"), "Lead Proof URL")))
    /\ proofPc' = "done"
    /\ UNCHANGED <<clock, ticks, log, handlerVars, batchVars,
                   apifyToken, fbCookies, proofBody, actorCalls>>

InitProof ==
    /\ InitClock
    /\ InitHandlerIdle
    /\ InitBatchIdle
    /\ apifyToken \in ApifyTokens
    /\ fbCookies \in CookieSettings
    /\ proofPc = "idle"
    /\ proofBody = Undefined
    /\ actorCalls = <<>>
    /\ actorRun = Undefined
    /\ proofSent = <<>>

NextProof == fetchResultsHandler \/ ActorSettles \/ ItemsSettle

SpecProof == InitProof /\ [][NextProof]_vars

\* The lead and proof URL of the current fetch-results request.
ProofLead == Get(proofBody, "lead")
ProofUrl == Get(ProofLead, "Lead Proof URL")

\* FACEBOOK_COOKIES is JSON text of an array.
CookiesAreArray == fbCookies.t = "json" /\ fbCookies.v.t = "array"

\* The invocation was answered with this status and error text, and no actor call.
Refused(status, message) ==
    /\ proofPc = "done"
    /\ actorCalls = <<>>
    /\ Len(proofSent) = 1
    /\ proofSent[1].status = status
    /\ Get(proofSent[1].body, "error") = Str(message)

\* The dataset was listed and held no items.
NoItems ==
    /\ proofPc = "done"
    /\ "list" \in DOMAIN actorRun
    /\ actorRun.list = "resolved"
    /\ (actorRun.items = Undefined \/ actorRun.items = Arr(<<>>))

\* C11: the actor is called at most once, and only for a request with a lead and
\* a proof URL, with the scraping credential set and the cookie material set and
\* parsing to a JSON array; the first of these checks that fails, in this order,
\* ends the request with 400 (lead, URL) or 500 (credential, cookies) and no actor
\* call; a run whose dataset holds no items ends with an error response that
\* carries no fetch result.
C11_ChecksBeforeActor ==
    proofPc # "idle" =>
        /\ Len(actorCalls) <= 1
        /\ actorCalls # <<>> =>
              /\ Truthy(ProofLead) /\ Truthy(ProofUrl)
              /\ Truthy(apifyToken) /\ Truthy(fbCookies) /\ CookiesAreArray
              /\ actorCalls[1].startUrls = Arr(<<Obj([url |-> ProofUrl])>>)
        /\ ~Truthy(ProofLead) => Refused(400, "lead object is required.")
        /\ (Truthy(ProofLead) /\ ~Truthy(ProofUrl)) =>
              Refused(400, "Lead Proof URL is missing from lead object.")
        /\ (Truthy(ProofUrl) /\ ~Truthy(apifyToken)) =>
              Refused(500, "Missing APIFY_API_TOKEN on server.")
        /\ (Truthy(ProofUrl) /\ Truthy(apifyToken) /\ ~Truthy(fbCookies)) =>
              Refused(500, "Missing FACEBOOK_COOKIES on server.")
        /\ (Truthy(ProofUrl) /\ Truthy(apifyToken) /\ Truthy(fbCookies) /\ ~CookiesAreArray) =>
              Refused(500, "Invalid FACEBOOK_COOKIES format. Must be a valid JSON array.")
        /\ NoItems =>
              /\ Len(proofSent) = 1
              /\ proofSent[1].status >= 400
              /\ Get(proofSent[1].body, "error") # Undefined
              /\ Get(proofSent[1].body, "success") = Undefined
              /\ Get(proofSent[1].body, "rawData") = Undefined

C11_Witness ==
    /\ NoItems
    /\ actorRun.items = Arr(<<>>)
    /\ Len(actorCalls) = 1
    /\ proofSent[1].status = 404

====
